---- MODULE Spec2Model ----
(***************************************************************************)
(* Sentiment scoring of comments with emoji (src/app.py).                  *)
(*                                                                         *)
(* Python values are modelled as records [type, repr]: repr is the         *)
(* sequence of characters of str(value) (for a str, the string itself).    *)
(* Real numbers are exact rationals <<numerator, denominator>> in lowest   *)
(* terms with a positive denominator; IEEE rounding is not modelled.       *)
(* A call's result is a record: exc is the name of the exception that      *)
(* escapes ("" for a normal return) and ret the returned value.            *)
(***************************************************************************)
EXTENDS Integers, Sequences, FiniteSets, TLC

VARIABLES
    fn,             \* the entry point this run exercises
    text,           \* argument of analyze_sentiment / preprocess_emoji_text
    response,       \* what the classifier does when analyze_sentiment calls it
    score_in,       \* argument of map_score_to_sentiment
    outcome,        \* result of the call of fn
    pc,             \* position in process_file
    df,             \* the comment column of the table
    i,              \* number of rows the loop of process_file has consumed
    sentiments,
    confidence_values,
    negative_probs,
    neutral_probs,
    positive_probs,
    columns,        \* the five result columns once assigned to the DataFrame
    served,         \* per consumed row, the behaviour the classifier had for it
    calls,          \* every text the classifier was invoked with, in order
    errors          \* every exception reported through st.error, in order

vars == <<fn, text, response, score_in, outcome, pc, df, i, sentiments,
          confidence_values, negative_probs, neutral_probs, positive_probs,
          columns, served, calls, errors>>

(***************************************************************************)
(* Bounds of the model.                                                    *)
(***************************************************************************)
MaxLen == 2         \* longest input text, in characters
ProbUnits == 2      \* classifier probabilities are multiples of 1/ProbUnits
MaxRecs == 2        \* longest record list of an off-contract response
MaxRows == 2        \* most rows of a table

(***************************************************************************)
(* Exact rational arithmetic.                                              *)
(***************************************************************************)
Abs(x) == IF x < 0 THEN -x ELSE x

RECURSIVE GCD(_, _)
GCD(a, b) == IF b = 0 THEN a ELSE GCD(b, a % b)

Rat(n, d) ==
    LET g == GCD(Abs(n), Abs(d))
        s == IF d < 0 THEN -1 ELSE 1
    IN  <<(s * n) \div g, (s * d) \div g>>

RAdd(x, y) == Rat(x[1] * y[2] + y[1] * x[2], x[2] * y[2])
RSub(x, y) == Rat(x[1] * y[2] - y[1] * x[2], x[2] * y[2])
RMul(x, y) == Rat(x[1] * y[1], x[2] * y[2])
RDiv(x, y) == Rat(x[1] * y[2], x[2] * y[1])
RLeq(x, y) == x[1] * y[2] <= y[1] * x[2]
RGeq(x, y) == RLeq(y, x)
Zero == Rat(0, 1)
One == Rat(1, 1)

(***************************************************************************)
(* Python values.                                                          *)
(***************************************************************************)
Str(chars) == [type |-> "str", repr |-> chars]
None == [type |-> "NoneType", repr |-> <<"N", "o", "n", "e">>]
Int0 == [type |-> "int", repr |-> <<"0">>]
Int5 == [type |-> "int", repr |-> <<"5">>]
NaN == [type |-> "float", repr |-> <<"n", "a", "n">>]

\* bool(v): None, zero and the empty string are false; nan is true.
Truthy(v) ==
    CASE v.type = "NoneType" -> FALSE
      [] v.type = "int" -> v.repr # <<"0">>
      [] v.type = "str" -> v.repr # <<>>
      [] OTHER -> TRUE

Whitespace == {" ", "\t", "\n"}

RECURSIVE lstrip(_)
lstrip(s) == IF s # <<>> /\ Head(s) \in Whitespace THEN lstrip(Tail(s)) ELSE s

RECURSIVE rstrip(_)
rstrip(s) ==
    IF s # <<>> /\ s[Len(s)] \in Whitespace
    THEN rstrip(SubSeq(s, 1, Len(s) - 1))
    ELSE s

\* str.strip()
strip(s) == rstrip(lstrip(s))

\* str.replace(old, new) for a one-character old
replace(s, old, new) == [k \in 1..Len(s) |-> IF s[k] = old THEN new ELSE s[k]]

(***************************************************************************)
(* emoji.demojize: every emoji becomes ":name:", other characters stay.    *)
(***************************************************************************)
ThumbsUp == "U+1F44D"

EmojiName(c) ==
    IF c = ThumbsUp
    THEN <<":", "t", "h", "u", "m", "b", "s", "_", "u", "p", ":">>
    ELSE <<c>>

RECURSIVE demojize(_)
demojize(s) == IF s = <<>> THEN <<>> ELSE EmojiName(Head(s)) \o demojize(Tail(s))

preprocess_emoji_text_keeps_underscore(t) ==
    IF t.type # "str"
    THEN Str(<<>>)
    ELSE Str(replace(demojize(t.repr), ":", " "))

preprocess_emoji_text(t) ==
    IF t.type # "str"
    THEN Str(<<>>)
    ELSE LET text_with_emoji_desc == demojize(t.repr)
             no_colon == replace(text_with_emoji_desc, ":", " ")
         IN  Str(replace(no_colon, "_", " "))

(***************************************************************************)
(* map_score_to_sentiment                                                  *)
(***************************************************************************)
map_score_to_sentiment_strict(score) ==
    IF score[1] < 2 * score[2] THEN "negative"
    ELSE IF score[1] > 4 * score[2] THEN "positive"
    ELSE "neutral"

map_score_to_sentiment(score) ==
    IF RLeq(score, Rat(2, 1)) THEN "negative"
    ELSE IF RGeq(score, Rat(4, 1)) THEN "positive"
    ELSE "neutral"

(***************************************************************************)
(* The classifier: for one invocation it either raises or returns a list   *)
(* holding one list of records {'label': "<N> star(s)", 'score': p}.       *)
(***************************************************************************)
Raises(e) == [exc |-> e, results |-> <<>>]
Returns(r) == [exc |-> "", results |-> r]

Digits == <<"0", "1", "2", "3", "4", "5", "6", "7", "8", "9">>

StarLabel(k) ==
    <<Digits[k + 1], " ", "s", "t", "a", "r">> \o (IF k = 1 THEN <<>> ELSE <<"s">>)

Record(l, p) == [label |-> l, score |-> p]

\* The distributions over 1..5 stars whose probabilities are multiples of
\* 1/ProbUnits: five records in rating order, probabilities summing to 1.
StarDistributions ==
    { Returns(<< [k \in 1..5 |-> Record(StarLabel(k), Rat(w[k], ProbUnits))] >>) :
        w \in { v \in [1..5 -> 0..ProbUnits] :
                  v[1] + v[2] + v[3] + v[4] + v[5] = ProbUnits } }

\* All mass on k stars.
PointMass(k) ==
    Returns(<< [j \in 1..5 |-> Record(StarLabel(j), IF j = k THEN One ELSE Zero)] >>)

\* Responses outside the classifier's contract: no result list at all, or a
\* short list of records whose labels may not parse and whose
\* probabilities need not sum to 1.
OffContractLabels == {StarLabel(5), <<"s", "t", "a", "r", "s">>, <<" ">>}

OffContractRecords ==
    { Record(l, Rat(k, ProbUnits)) : l \in OffContractLabels, k \in 0..ProbUnits }

OffContract ==
    {Returns(<<>>)} \cup
    { Returns(<<recs>>) :
        recs \in UNION { [1..n -> OffContractRecords] : n \in 0..MaxRecs } }

Responses == {Raises("RuntimeError")} \cup StarDistributions \cup OffContract

(***************************************************************************)
(* analyze_sentiment                                                       *)
(***************************************************************************)
NeutralDefault ==
    <<"neutral", Rat(5, 10),
      [negative |-> Rat(33, 100), neutral |-> Rat(34, 100), positive |-> Rat(33, 100)]>>

\* `not text or len(text.strip()) == 0`: exc is the exception the test
\* raises ("" when it raises none) and val its value.
IsBlankTruthinessOnly(t) == [exc |-> "", val |-> ~Truthy(t)]

IsBlank(t) ==
    IF ~Truthy(t) THEN [exc |-> "", val |-> TRUE]
    ELSE IF t.type # "str" THEN [exc |-> "AttributeError", val |-> FALSE]
    ELSE [exc |-> "", val |-> Len(strip(t.repr)) = 0]

\* label.split()[0]
FirstToken(label) ==
    LET rest == lstrip(label)
        ends == { k \in 1..Len(rest) : rest[k] \in Whitespace }
        stop == IF ends = {} THEN Len(rest) + 1
                ELSE CHOOSE k \in ends : \A m \in ends : k <= m
    IN  IF rest = <<>>
        THEN [exc |-> "IndexError", tok |-> <<>>]
        ELSE [exc |-> "", tok |-> SubSeq(rest, 1, stop - 1)]

DigitValue(c) == CHOOSE v \in 0..9 : Digits[v + 1] = c

RECURSIVE DecimalValue(_)
DecimalValue(tok) ==
    IF tok = <<>> THEN 0
    ELSE 10 * DecimalValue(SubSeq(tok, 1, Len(tok) - 1)) + DigitValue(tok[Len(tok)])

IsDigit(c) == \E v \in 0..9 : Digits[v + 1] = c

\* int(token) for a token without whitespace: an optional sign and digits.
ParseInt(tok) ==
    LET signed == tok # <<>> /\ tok[1] \in {"+", "-"}
        body == IF signed THEN Tail(tok) ELSE tok
    IN  IF body = <<>> \/ \E k \in 1..Len(body) : ~IsDigit(body[k])
        THEN [exc |-> "ValueError", val |-> 0]
        ELSE [exc |-> "",
              val |-> IF signed /\ tok[1] = "-" THEN -DecimalValue(body)
                      ELSE DecimalValue(body)]

\* The loop over results[0], from record k on with the running score.
RECURSIVE ScoreLoop(_, _, _)
ScoreLoop(records, k, score) ==
    IF k > Len(records) THEN [exc |-> "", score |-> score]
    ELSE LET label == records[k].label
             first == FirstToken(label)
             stars == ParseInt(first.tok)
         IN  IF first.exc # "" THEN [exc |-> first.exc, score |-> score]
             ELSE IF stars.exc # "" THEN [exc |-> stars.exc, score |-> score]
             ELSE ScoreLoop(records, k + 1,
                            RAdd(score, RMul(Rat(stars.val, 1), records[k].score)))

NormalizeFromZero(score) == RDiv(score, Rat(4, 1))

Normalize(score) == RDiv(RSub(score, One), Rat(4, 1))

SynthesizeProbsSteep(sentiment, normalized_score) ==
    IF sentiment = "negative" THEN
        [negative |-> RAdd(Rat(6, 10), RMul(RSub(One, normalized_score), Rat(5, 10))),
         neutral  |-> RSub(Rat(3, 10), RMul(RSub(One, normalized_score), Rat(2, 10))),
         positive |-> Rat(1, 10)]
    ELSE IF sentiment = "positive" THEN
        [negative |-> Rat(1, 10),
         neutral  |-> RSub(Rat(3, 10), RMul(normalized_score, Rat(2, 10))),
         positive |-> RAdd(Rat(6, 10), RMul(normalized_score, Rat(5, 10)))]
    ELSE
        [negative |-> Rat(3, 10), neutral |-> Rat(4, 10), positive |-> Rat(3, 10)]

SynthesizeProbsSwapped(sentiment, normalized_score) ==
    IF sentiment = "negative" THEN
        [negative |-> RAdd(Rat(6, 10), RMul(normalized_score, Rat(3, 10))),
         neutral  |-> RSub(Rat(3, 10), RMul(normalized_score, Rat(2, 10))),
         positive |-> Rat(1, 10)]
    ELSE IF sentiment = "positive" THEN
        [negative |-> Rat(1, 10),
         neutral  |-> RSub(Rat(3, 10), RMul(RSub(One, normalized_score), Rat(2, 10))),
         positive |-> RAdd(Rat(6, 10), RMul(RSub(One, normalized_score), Rat(3, 10)))]
    ELSE
        [negative |-> Rat(3, 10), neutral |-> Rat(4, 10), positive |-> Rat(3, 10)]

SynthesizeProbs(sentiment, normalized_score) ==
    IF sentiment = "negative" THEN
        [negative |-> RAdd(Rat(6, 10), RMul(RSub(One, normalized_score), Rat(3, 10))),
         neutral  |-> RSub(Rat(3, 10), RMul(RSub(One, normalized_score), Rat(2, 10))),
         positive |-> Rat(1, 10)]
    ELSE IF sentiment = "positive" THEN
        [negative |-> Rat(1, 10),
         neutral  |-> RSub(Rat(3, 10), RMul(normalized_score, Rat(2, 10))),
         positive |-> RAdd(Rat(6, 10), RMul(normalized_score, Rat(3, 10)))]
    ELSE
        [negative |-> Rat(3, 10), neutral |-> Rat(4, 10), positive |-> Rat(3, 10)]

\* The body of the try block: exc is the exception it raises, score the
\* weighted score (<<>> when none was computed) and ret the value returned.
TryBody(sentiment_analyzer, processed_text) ==
    IF sentiment_analyzer.exc # ""
    THEN [exc |-> sentiment_analyzer.exc, score |-> <<>>, ret |-> <<>>]
    ELSE IF Len(sentiment_analyzer.results) = 0
    THEN [exc |-> "IndexError", score |-> <<>>, ret |-> <<>>]
    ELSE LET loop == ScoreLoop(sentiment_analyzer.results[1], 1, Zero)
             score == loop.score
             normalized_score == Normalize(score)
             sentiment == map_score_to_sentiment(score)
             probs == SynthesizeProbs(sentiment, normalized_score)
         IN  IF loop.exc # ""
             THEN [exc |-> loop.exc, score |-> <<>>, ret |-> <<>>]
             ELSE [exc |-> "", score |-> score,
                   ret |-> <<sentiment, normalized_score, probs>>]

\* except Exception as e: report it and return the neutral default.
ExceptHandlerReraises(e) == [exc |-> e, ret |-> <<>>, errors |-> <<e>>]

ExceptHandler(e) == [exc |-> "", ret |-> NeutralDefault, errors |-> <<e>>]

\* The result of analyze_sentiment(sentiment_analyzer, text), with the
\* texts the classifier was invoked with (calls) and the exceptions
\* reported through st.error (errors).
analyze_sentiment_retries(sentiment_analyzer, t) ==
    LET blank == IsBlank(t)
        processed_text == preprocess_emoji_text(t)
        body == TryBody(sentiment_analyzer, processed_text.repr)
        handled == ExceptHandler(body.exc)
    IN  IF blank.exc # ""
        THEN [exc |-> blank.exc, ret |-> <<>>, score |-> <<>>,
              calls |-> <<>>, errors |-> <<>>]
        ELSE IF blank.val
        THEN [exc |-> "", ret |-> NeutralDefault, score |-> <<>>,
              calls |-> <<>>, errors |-> <<>>]
        ELSE IF body.exc = ""
        THEN [exc |-> "", ret |-> body.ret, score |-> body.score,
              calls |-> <<processed_text.repr>>, errors |-> <<>>]
        ELSE [exc |-> handled.exc, ret |-> handled.ret, score |-> <<>>,
              calls |-> <<processed_text.repr, processed_text.repr>>,
              errors |-> handled.errors]

analyze_sentiment(sentiment_analyzer, t) ==
    LET blank == IsBlank(t)
        processed_text == preprocess_emoji_text(t)
        body == TryBody(sentiment_analyzer, processed_text.repr)
        handled == ExceptHandler(body.exc)
    IN  IF blank.exc # ""
        THEN [exc |-> blank.exc, ret |-> <<>>, score |-> <<>>,
              calls |-> <<>>, errors |-> <<>>]
        ELSE IF blank.val
        THEN [exc |-> "", ret |-> NeutralDefault, score |-> <<>>,
              calls |-> <<>>, errors |-> <<>>]
        ELSE IF body.exc = ""
        THEN [exc |-> "", ret |-> body.ret, score |-> body.score,
              calls |-> <<processed_text.repr>>, errors |-> <<>>]
        ELSE [exc |-> handled.exc, ret |-> handled.ret, score |-> <<>>,
              calls |-> <<processed_text.repr>>, errors |-> handled.errors]

(***************************************************************************)
(* Inputs.                                                                 *)
(***************************************************************************)
Alphabet == {"a", " ", ":", "_", ThumbsUp}

Texts == { Str(s) : s \in UNION { [1..n -> Alphabet] : n \in 0..MaxLen } }

Values == Texts \cup {None, Int0, Int5, NaN}

Scores == { Rat(k, ProbUnits) : k \in (0 - ProbUnits)..(6 * ProbUnits) }

NoOutcome == [exc |-> "", ret |-> <<>>, score |-> <<>>, calls |-> <<>>, errors |-> <<>>]

(***************************************************************************)
(* The three functions, each called once on an input of its domain.        *)
(***************************************************************************)
InitFn ==
    /\ pc = "call"
    /\ outcome = NoOutcome
    /\ \/ fn = "analyze_sentiment" /\ text \in Values /\ response \in Responses
          /\ score_in = Zero
       \/ fn = "preprocess_emoji_text" /\ text \in Values
          /\ response = Raises("RuntimeError") /\ score_in = Zero
       \/ fn = "map_score_to_sentiment" /\ score_in \in Scores
          /\ text = None /\ response = Raises("RuntimeError")
    /\ df = <<>>
    /\ i = 0
    /\ sentiments = <<>>
    /\ confidence_values = <<>>
    /\ negative_probs = <<>>
    /\ neutral_probs = <<>>
    /\ positive_probs = <<>>
    /\ columns = <<>>
    /\ served = <<>>
    /\ calls = <<>>
    /\ errors = <<>>

batch_vars == <<df, i, sentiments, confidence_values, negative_probs,
                neutral_probs, positive_probs, columns, served>>

CallAnalyze ==
    /\ pc = "call"
    /\ fn = "analyze_sentiment"
    /\ outcome' = analyze_sentiment(response, text)
    /\ calls' = outcome'.calls
    /\ errors' = outcome'.errors
    /\ pc' = "returned"
    /\ UNCHANGED <<fn, text, response, score_in, batch_vars>>

CallPreprocess ==
    /\ pc = "call"
    /\ fn = "preprocess_emoji_text"
    /\ outcome' = [NoOutcome EXCEPT !.ret = preprocess_emoji_text(text)]
    /\ pc' = "returned"
    /\ UNCHANGED <<fn, text, response, score_in, batch_vars, calls, errors>>

CallMapScore ==
    /\ pc = "call"
    /\ fn = "map_score_to_sentiment"
    /\ outcome' = [NoOutcome EXCEPT !.ret = map_score_to_sentiment(score_in)]
    /\ pc' = "returned"
    /\ UNCHANGED <<fn, text, response, score_in, batch_vars, calls, errors>>

NextFn == CallAnalyze \/ CallPreprocess \/ CallMapScore

SpecFn == InitFn /\ [][NextFn]_vars

(***************************************************************************)
(* process_file, from the point where the comment column is identified.    *)
(***************************************************************************)
Cells == {NaN, Int5, Str(<<" ">>), Str(<<"a", ThumbsUp>>)}

Tables == UNION { [1..n -> Cells] : n \in 0..MaxRows }

BatchResponses ==
    {Raises("RuntimeError"), Returns(<< <<Record(<<"s", "t", "a", "r", "s">>, One)>> >>)}
        \cup { PointMass(k) : k \in 1..5 }

Init ==
    /\ fn = "process_file"
    /\ pc = "astype"
    /\ df \in Tables
    /\ i = 0
    /\ sentiments = <<>>
    /\ confidence_values = <<>>
    /\ negative_probs = <<>>
    /\ neutral_probs = <<>>
    /\ positive_probs = <<>>
    /\ columns = <<>>
    /\ served = <<>>
    /\ calls = <<>>
    /\ errors = <<>>
    /\ text = None
    /\ response = Raises("RuntimeError")
    /\ score_in = Zero
    /\ outcome = NoOutcome

fn_vars == <<fn, text, response, score_in, outcome>>

result_lists == <<sentiments, confidence_values, negative_probs, neutral_probs,
                  positive_probs>>

\* df[comment_col] = df[comment_col].astype(str)
Coerce ==
    /\ pc = "astype"
    /\ df' = [k \in 1..Len(df) |-> Str(df[k].repr)]
    /\ pc' = "loop"
    /\ UNCHANGED <<fn_vars, i, result_lists, columns, served, calls, errors>>

\* One iteration of the loop over the comments.
ScoreRowBreaksOnError ==
    /\ pc = "loop"
    /\ i < Len(df)
    /\ \E r \in BatchResponses :
          LET comment == df[i + 1]
              o == analyze_sentiment(r, comment)
          IN  /\ served' = Append(served, r)
              /\ calls' = calls \o o.calls
              /\ errors' = errors \o o.errors
              /\ IF o.exc # "" \/ o.errors # <<>>
                 THEN /\ i' = Len(df)
                      /\ UNCHANGED <<pc, result_lists>>
                 ELSE /\ sentiments' = Append(sentiments, o.ret[1])
                      /\ confidence_values' = Append(confidence_values, o.ret[2])
                      /\ negative_probs' = Append(negative_probs, o.ret[3].negative)
                      /\ neutral_probs' = Append(neutral_probs, o.ret[3].neutral)
                      /\ positive_probs' = Append(positive_probs, o.ret[3].positive)
                      /\ i' = i + 1
                      /\ pc' = pc
    /\ UNCHANGED <<fn_vars, df, columns>>

ScoreRow ==
    /\ pc = "loop"
    /\ i < Len(df)
    /\ \E r \in BatchResponses :
          LET comment == df[i + 1]
              o == analyze_sentiment(r, comment)
          IN  /\ served' = Append(served, r)
              /\ calls' = calls \o o.calls
              /\ errors' = errors \o o.errors
              /\ IF o.exc # ""
                 THEN /\ pc' = "raised"
                      /\ UNCHANGED <<i, result_lists>>
                 ELSE /\ sentiments' = Append(sentiments, o.ret[1])
                      /\ confidence_values' = Append(confidence_values, o.ret[2])
                      /\ negative_probs' = Append(negative_probs, o.ret[3].negative)
                      /\ neutral_probs' = Append(neutral_probs, o.ret[3].neutral)
                      /\ positive_probs' = Append(positive_probs, o.ret[3].positive)
                      /\ i' = i + 1
                      /\ pc' = pc
    /\ UNCHANGED <<fn_vars, df, columns>>

\* The loop is over: the five lists become columns and df is returned.
Finish ==
    /\ pc = "loop"
    /\ i = Len(df)
    /\ columns' = [sentiment |-> sentiments,
                   confidence |-> confidence_values,
                   prob_negative |-> negative_probs,
                   prob_neutral |-> neutral_probs,
                   prob_positive |-> positive_probs]
    /\ pc' = "done"
    /\ UNCHANGED <<fn_vars, df, i, result_lists, served, calls, errors>>

Next == Coerce \/ ScoreRow \/ Finish

Spec == Init /\ [][Next]_vars

(***************************************************************************)
(* Vocabulary of the properties.                                           *)
(***************************************************************************)
Returned(f) == fn = f /\ pc = "returned"

IsString(v) == v.type = "str"

\* A string holding at least one character that is not whitespace.
NonBlank(v) == IsString(v) /\ \E k \in 1..Len(v.repr) : v.repr[k] \notin Whitespace

\* The empty string, or a string of whitespace only.
Blank(v) == IsString(v) /\ \A k \in 1..Len(v.repr) : v.repr[k] \in Whitespace

DefaultTriple ==
    <<"neutral", <<1, 2>>,
      [negative |-> <<33, 100>>, neutral |-> <<17, 50>>, positive |-> <<33, 100>>]>>

LabelHasStars(l) == \E k \in 1..9 : l = StarLabel(k)

\* The classifier call fails: the service raises, the response holds no
\* result list, or some label does not start with an integer.
ClassifierFails(r) ==
    \/ r.exc # ""
    \/ r.results = <<>>
    \/ \E k \in 1..Len(r.results[1]) : ~LabelHasStars(r.results[1][k].label)

\* Five records labelled 1..5 stars in order, with non-negative
\* probabilities that sum to 1.
IsStarDistribution(r) ==
    /\ r.exc = ""
    /\ Len(r.results) = 1
    /\ Len(r.results[1]) = 5
    /\ \A k \in 1..5 :
          /\ r.results[1][k].label = StarLabel(k)
          /\ r.results[1][k].score[1] >= 0
    /\ LET p == [k \in 1..5 |-> r.results[1][k].score]
       IN  RAdd(p[1], RAdd(p[2], RAdd(p[3], RAdd(p[4], p[5])))) = <<1, 1>>

\* analyze_sentiment returned what the try block computed.
NormalPath == Returned("analyze_sentiment") /\ outcome.exc = "" /\ outcome.score # <<>>

InUnit(q) == 0 <= q[1] /\ q[1] <= q[2]

(***************************************************************************)
(* C1. Fail-to-neutral: when the classifier call fails on a non-blank      *)
(* string, analyze_sentiment raises nothing, reports the error once and    *)
(* returns (neutral, 0.5, {0.33, 0.34, 0.33}).                              *)
(***************************************************************************)
FailToNeutral ==
    (Returned("analyze_sentiment") /\ NonBlank(text) /\ ClassifierFails(response))
        => /\ outcome.exc = ""
           /\ outcome.ret = DefaultTriple
           /\ Len(errors) = 1

FailToNeutralWitness ==
    /\ Returned("analyze_sentiment")
    /\ text = Str(<<"a">>)
    /\ response = Returns(<< <<Record(StarLabel(5), One),
                              Record(<<"s", "t", "a", "r", "s">>, One)>> >>)
    /\ errors = <<"ValueError">>
    /\ outcome.ret = DefaultTriple

(***************************************************************************)
(* C2. Blank-input short-circuit: for the empty string and for whitespace  *)
(* only, analyze_sentiment returns the neutral default and the classifier  *)
(* is never invoked, whatever it would have done.                          *)
(***************************************************************************)
BlankShortCircuit ==
    (Returned("analyze_sentiment") /\ Blank(text))
        => /\ outcome.exc = ""
           /\ outcome.ret = DefaultTriple
           /\ calls = <<>>
           /\ errors = <<>>

BlankShortCircuitWitness ==
    /\ Returned("analyze_sentiment")
    /\ text = Str(<<" ", " ">>)
    /\ response = PointMass(5)
    /\ outcome.ret = DefaultTriple
    /\ calls = <<>>

(***************************************************************************)
(* C3. Non-string input: for every value that is not a string,             *)
(* analyze_sentiment returns the neutral default and raises nothing.       *)
(***************************************************************************)
NonStringToNeutral ==
    (Returned("analyze_sentiment") /\ ~IsString(text))
        => /\ outcome.exc = ""
           /\ outcome.ret = DefaultTriple

(***************************************************************************)
(* C4. Label boundaries: map_score_to_sentiment gives negative for a score *)
(* <= 2, positive for a score >= 4 and neutral strictly in between; the    *)
(* label analyze_sentiment returns is the one of the raw weighted score,   *)
(* which is 4 * normalized + 1.                                            *)
(***************************************************************************)
LabelOf(n, d) ==
    IF n <= 2 * d THEN "negative" ELSE IF n >= 4 * d THEN "positive" ELSE "neutral"

LabelBoundaries ==
    /\ Returned("map_score_to_sentiment")
          => outcome.ret = LabelOf(score_in[1], score_in[2])
    /\ NormalPath
          => /\ outcome.ret[1] = LabelOf(outcome.score[1], outcome.score[2])
             /\ outcome.ret[1] = LabelOf(4 * outcome.ret[2][1] + outcome.ret[2][2],
                                         outcome.ret[2][2])

LabelBoundariesWitness ==
    /\ Returned("map_score_to_sentiment")
    /\ score_in = <<2, 1>>
    /\ outcome.ret = "negative"

(***************************************************************************)
(* C5. Normalized-score range.  As claimed: for every response of the      *)
(* classifier the weighted score is in [1,5] and the normalized score in   *)
(* [0,1].                                                                  *)
(***************************************************************************)
ScoreInRange ==
    /\ outcome.score[2] <= outcome.score[1]
    /\ outcome.score[1] <= 5 * outcome.score[2]
    /\ InUnit(outcome.ret[2])

ScoreRangeAnyResponse == NormalPath => ScoreInRange

\* C5 as amended: the ranges hold whenever the response is a star
\* distribution (ratings 1..5, non-negative probabilities summing to 1).
ScoreRangeOfDistribution ==
    (NormalPath /\ IsStarDistribution(response)) => ScoreInRange

ScoreRangeWitness ==
    /\ NormalPath
    /\ IsStarDistribution(response)
    /\ outcome.score = <<5, 1>>
    /\ outcome.ret[2] = <<1, 1>>

(***************************************************************************)
(* C6. Probability-triple range.  As claimed: on every path each of the    *)
(* three returned components is in [0,1].                                  *)
(***************************************************************************)
TripleInRange ==
    /\ InUnit(outcome.ret[3].negative)
    /\ InUnit(outcome.ret[3].neutral)
    /\ InUnit(outcome.ret[3].positive)

TripleRangeAnyResponse ==
    (Returned("analyze_sentiment") /\ outcome.exc = "") => TripleInRange

\* C6 as amended: each component is in [0,1] on the blank-input path, on
\* the failure path, and on the normal path when the response is a star
\* distribution.
TripleRangeOfDistribution ==
    (Returned("analyze_sentiment") /\ outcome.exc = ""
        /\ (NormalPath => IsStarDistribution(response)))
        => TripleInRange

TripleRangeWitness ==
    /\ NormalPath
    /\ IsStarDistribution(response)
    /\ outcome.ret[3].negative = <<9, 10>>

(***************************************************************************)
(* C7. Probability synthesis: with n = a/b the normalized score,           *)
(* negative gives {0.6 + (1-n)*0.3, 0.3 - (1-n)*0.2, 0.1}, positive gives  *)
(* {0.1, 0.3 - n*0.2, 0.6 + n*0.3}, neutral gives {0.3, 0.4, 0.3}; n is    *)
(* (score - 1) / 4; all mass on 5 stars yields (positive, 1, {0.1, 0.1,    *)
(* 0.9}) and all mass on 1 star (negative, 0, {0.9, 0.1, 0.1}).            *)
(***************************************************************************)
\* q = n / (10 * b)
IsTenths(q, n, b) == q[1] * 10 * b = q[2] * n

NormalizerOutput ==
    Returned("preprocess_emoji_text")
        => /\ outcome.exc = ""
           /\ IsString(outcome.ret)
           /\ ~IsString(text) => outcome.ret.repr = <<>>
           /\ IsString(text) =>
                 \A k \in 1..Len(outcome.ret.repr) :
                     outcome.ret.repr[k] \notin {":", "_", ThumbsUp}

NormalizerWitness ==
    /\ Returned("preprocess_emoji_text")
    /\ text = Str(<<"_", ThumbsUp>>)
    /\ outcome.ret.repr = <<" ", " ", "t", "h", "u", "m", "b", "s", " ", "u", "p", " ">>

(***************************************************************************)
(* C8. Batch completeness and order: process_file never raises and never   *)
(* stops before it is done; it ends with one result row per input row, in  *)
(* input order, row k being the result of scoring comment k against what   *)
(* the classifier did for row k alone; a row on which the classifier       *)
(* failed carries the neutral default and the rows after it are scored.    *)
(***************************************************************************)
RowOf(ret) == <<ret[1], ret[2], ret[3].negative, ret[3].neutral, ret[3].positive>>

ResultRow(k) ==
    <<columns.sentiment[k], columns.confidence[k], columns.prob_negative[k],
      columns.prob_neutral[k], columns.prob_positive[k]>>

BatchComplete ==
    /\ pc # "raised"
    /\ pc = "done" \/ ENABLED Next
    /\ pc = "done" =>
          /\ Len(served) = Len(df)
          /\ Len(columns.sentiment) = Len(df)
          /\ Len(columns.confidence) = Len(df)
          /\ Len(columns.prob_negative) = Len(df)
          /\ Len(columns.prob_neutral) = Len(df)
          /\ Len(columns.prob_positive) = Len(df)
          /\ \A k \in 1..Len(df) :
                /\ ResultRow(k) = RowOf(analyze_sentiment(served[k], df[k]).ret)
                /\ (NonBlank(df[k]) /\ ClassifierFails(served[k]))
                      => ResultRow(k) = RowOf(DefaultTriple)
                /\ (NonBlank(df[k]) /\ served[k] = PointMass(5))
                      => ResultRow(k) =
                            <<"positive", <<1, 1>>, <<1, 10>>, <<1, 10>>, <<9, 10>>>>

BatchCompleteWitness ==
    /\ pc = "done"
    /\ Len(df) = MaxRows
    /\ NonBlank(df[1])
    /\ served[1] = Raises("RuntimeError")
    /\ NonBlank(df[MaxRows])
    /\ served[MaxRows] = PointMass(5)
    /\ columns.sentiment[1] = "neutral"
    /\ columns.sentiment[MaxRows] = "positive"

(***************************************************************************)
(* C9. No retry: the classifier is invoked exactly once for each non-blank *)
(* row consumed and never for a blank one, a failed invocation is reported *)
(* once and not repeated, so n rows make at most n invocations.            *)
(***************************************************************************)
NoRetry ==
    /\ i <= Len(df)
    /\ Len(calls) <= i
    /\ pc # "astype" =>
          /\ Len(calls) = Cardinality({ k \in 1..Len(served) : NonBlank(df[k]) })
          /\ Len(errors) =
                Cardinality({ k \in 1..Len(served) :
                                NonBlank(df[k]) /\ ClassifierFails(served[k]) })

NoRetryWitness ==
    /\ pc = "done"
    /\ Len(df) = MaxRows
    /\ \A k \in 1..Len(df) : NonBlank(df[k]) /\ served[k] = Raises("RuntimeError")
    /\ Len(calls) = MaxRows
    /\ Len(errors) = MaxRows

====
